---- MODULE Spec2Model ----
(***************************************************************************)
(* Model of src/app/subway.py: the main control loop of the subway arrival *)
(* display (section 8 of the script), with get_time, get_train, scroll and *)
(* the master_group scene list it mutates.                                 *)
(*                                                                         *)
(* Python's None is modelled as the integer None == -1 for current_time    *)
(* and current_hour, and as the record NoData for the 4-tuple returned by  *)
(* get_train.  Texts are sequences of one-character strings so that len()  *)
(* and ','.join() are computed.  List indices are 0-based as in the code.  *)
(***************************************************************************)
EXTENDS Integers, Sequences, FiniteSets, TLC

VARIABLES
    pc,              \* position of the script: "top" (while True), "body" (at `if setup`), "idle" (in time.sleep(10)), "cleanup", "done"
    setup,           \* setup latch
    reset,           \* reset flag
    previous_hour,   \* hour stored by the last active reset cycle
    i,               \* tick index
    active,          \* active flag of the reset cycle
    live,            \* live flag of the reset cycle
    current_time,    \* epoch seconds returned by get_time, or None
    current_hour,    \* hour returned by get_time, or None
    train,           \* (times, symbol, destination, alert) returned by get_train
    master_group,    \* the scene: list of elements
    text_label_top,  \* the Label the name text_label_top is bound to
    x,               \* text_label_top[0].x, the scroll offset
    root_group,      \* display.root_group: "master_group" or "blank_group"
    on_hour,         \* ON_HOUR of the configuration in use
    off_hour,        \* OFF_HOUR of the configuration in use
    free_mem,        \* value of mem_free() during the last reset cycle
    fetched,         \* history: requests.get(MTA_STOP_URL) has been called by this process
    feed,            \* the answers the transit data source holds when they are fixed in advance (get_train on its own); the loop draws them per cycle
    steady,          \* history: so far every clock fetch succeeded, memory was never low and the sampled hour advanced by 0 or 1 (mod 24)
    io,              \* collaborator calls made by the last step, in order
    ops              \* scroll steps, scene list operations and refresh calls of the last step, in order

vars == <<pc, setup, reset, previous_hour, i, active, live, current_time,
          current_hour, train, master_group, text_label_top, x, root_group,
          on_hour, off_hour, free_mem, fetched, feed, steady, io, ops>>

----------------------------------------------------------------------------
(* 1. USER PARAMETERS and 2. OTHER PARAMETERS *)

SHOW_ALERT == TRUE
SHOW_LIVE == TRUE
ON_HOUR == 12
OFF_HOUR == 3
RESTART_HOUR == 4
LIVE_ICON_LATENCY == 6
MEM_THRESHOLD == 1000
CHAR_WIDTH == 6
ROUTE_ID == "Q"
MTA_STOP_URL_DIRECTIONS == {"downtown and brooklyn", "downtown", "brooklyn"}

RESTART_HOUR_PREV == IF RESTART_HOUR = 0 THEN 23 ELSE RESTART_HOUR - 1

None == -1

Hours == 0..23

----------------------------------------------------------------------------
(* Bounds of the environment *)

\* free-memory readings offered to a reset cycle: MEM_THRESHOLD - MemSpan .. MEM_THRESHOLD
MemSpan == 1
MemReadings == (MEM_THRESHOLD - MemSpan)..MEM_THRESHOLD

\* number of alerts a route response can carry: 0..MaxAlerts
MaxAlerts == 1

\* the epoch second of 00:00:00 UTC of the day the clock samples are taken on
DayEpoch == 86400

EpochOf(h) == DayEpoch + h * 3600

----------------------------------------------------------------------------
(* Scene elements *)

Elem(id) == [id |-> id, text |-> <<>>]
Label(id, text) == [id |-> id, text |-> text]

blank_group == "blank_group"
master == "master_group"

live_on_icon == Elem("live_on_icon")
live_off_icon == Elem("live_off_icon")
alert_true_icon == Elem("alert_true_icon")

InitMasterGroup ==
    << Label("text_label_top", <<>>), Label("text_label_bottom", <<>>),
       Elem("border_rectangle_left"), Elem("border_rectangle_right"),
       Elem("route_circle_1"), Elem("route_circle_2"),
       Elem("route_circle_3"), Elem("route_circle_4"),
       Label("route_label_1", <<ROUTE_ID>>), Label("route_label_2", <<ROUTE_ID>>),
       IF SHOW_LIVE THEN live_on_icon ELSE live_off_icon >>

\* list.pop(k) and list.insert(k, e) with 0-based k
Pop(g, k) == SubSeq(g, 1, k) \o SubSeq(g, k + 2, Len(g))
Insert(g, k, e) == SubSeq(g, 1, k) \o <<e>> \o SubSeq(g, k + 1, Len(g))

\* the operations a step performs, as recorded in ops
NoElem == Elem("")
POP(k) == [op |-> "pop", at |-> k, elem |-> NoElem]
INSERT(k, e) == [op |-> "insert", at |-> k, elem |-> e]
SCROLL == [op |-> "scroll", at |-> 0, elem |-> NoElem]
REFRESHED == [op |-> "refresh", at |-> 0, elem |-> NoElem]

----------------------------------------------------------------------------
(* 4. get_train *)

Dest1 == <<"C", "I">>
Dest2 == <<"B">>

Lower(s) ==
    CASE s = "Downtown" -> "downtown"
      [] s = "BROOKLYN" -> "brooklyn"
      [] s = "Downtown and Brooklyn" -> "downtown and brooklyn"
      [] s = "Uptown" -> "uptown"
      [] OTHER -> s

NoData == [none |-> TRUE, times |-> <<>>, symbol |-> "", destination |-> <<>>, alert |-> FALSE]

\* an entry of mta_response["stopTimes"]; missing names a field absent from
\* the entry: "" (none), "headsign", or "detail" (trip/destination/departure)
Train(headsign, route, dest, dep, missing) ==
    [headsign |-> headsign, route |-> route, dest |-> dest, dep |-> dep, missing |-> missing]

\* int(a / 60) for an integer a: truncation towards zero
TruncDiv60(a) == IF a >= 0 THEN a \div 60 ELSE -((-a) \div 60)

\* mutation: the remaining time is not floored at 0
MaxRight(a, b) == b

Max(a, b) == IF a >= b THEN a ELSE b

\* the for loop of get_train from entry k on; target holds the matches so far
RECURSIVE ScanTrains(_, _, _, _)
ScanTrains(trains, k, target, now) ==
    IF k > Len(trains) THEN [err |-> FALSE, target |-> target]
    ELSE LET t == trains[k] IN
         IF t.missing = "headsign" THEN [err |-> TRUE, target |-> <<>>]
         ELSE IF Lower(t.headsign) \in MTA_STOP_URL_DIRECTIONS
              THEN IF t.missing = "detail" THEN [err |-> TRUE, target |-> <<>>]
                   ELSE LET target2 == Append(target,
                                [train_symbol |-> t.route,
                                 destination_name |-> t.dest,
                                 remaining_time |-> t.dep - now])
                        IN IF Len(target2) >= 3
                           THEN [err |-> FALSE, target |-> target2]
                           ELSE ScanTrains(trains, k + 1, target2, now)
              ELSE IF Len(target) >= 3
                   THEN [err |-> FALSE, target |-> target]
                   ELSE ScanTrains(trains, k + 1, target, now)

\* the try block of get_train: its result and the requests it made; stop and
\* route are the answers the two URLs would give
get_train_try(stop, route, now) ==
    IF ~stop.ok
    THEN [data |-> NoData, requests |-> <<"requests.get(MTA_STOP_URL)">>]
    ELSE LET scan == ScanTrains(stop.stopTimes, 1, <<>>, now) IN
         IF scan.err \/ scan.target = <<>>
         THEN [data |-> NoData, requests |-> <<"requests.get(MTA_STOP_URL)">>]
         ELSE IF ~route.ok
         THEN [data |-> NoData,
               requests |-> <<"requests.get(MTA_STOP_URL)", "requests.get(MTA_ROUTE_URL)">>]
         ELSE [data |-> [none |-> FALSE,
                         times |-> [k \in 1..Len(scan.target) |->
                                      Max(0, TruncDiv60(scan.target[k].remaining_time))],
                         symbol |-> scan.target[1].train_symbol,
                         destination |-> scan.target[1].destination_name,
                         alert |-> route.alerts > 0],
               requests |-> <<"requests.get(MTA_STOP_URL)", "requests.get(MTA_ROUTE_URL)">>]

\* mutation: the `if not current_time` guard comes after the first request
get_train_unguarded(stop, route, now) ==
    IF now = None \/ now = 0
    THEN [data |-> NoData, requests |-> <<"requests.get(MTA_STOP_URL)">>]
    ELSE get_train_try(stop, route, now)

get_train(stop, route, now) ==
    IF now = None \/ now = 0
    THEN [data |-> NoData, requests |-> <<>>]
    ELSE get_train_try(stop, route, now)

----------------------------------------------------------------------------
(* formatted_times *)

Digit(d) == CASE d = 0 -> "0" [] d = 1 -> "1" [] d = 2 -> "2" [] d = 3 -> "3"
              [] d = 4 -> "4" [] d = 5 -> "5" [] d = 6 -> "6" [] d = 7 -> "7"
              [] d = 8 -> "8" [] d = 9 -> "9"

\* str(t) for t >= 0
RECURSIVE Str(_)
Str(t) == IF t < 10 THEN <<Digit(t)>> ELSE Str(t \div 10) \o <<Digit(t % 10)>>

\* ','.join([str(t) for t in ts])
RECURSIVE Join(_)
Join(ts) == IF ts = <<>> THEN <<>>
            ELSE IF Len(ts) = 1 THEN Str(ts[1])
            ELSE Str(ts[1]) \o <<",">> \o Join(Tail(ts))

\* times[:n]
Take(ts, n) == SubSeq(ts, 1, IF Len(ts) < n THEN Len(ts) ELSE n)

\* mutation: a rendering of exactly 6 characters already falls back to 2 times
FormatTimesTight(times) ==
    IF Len(Join(Take(times, 3))) >= 6 THEN Join(Take(times, 2)) ELSE Join(Take(times, 3))

FormatTimes(times) ==
    IF Len(Join(Take(times, 3))) > 6 THEN Join(Take(times, 2)) ELSE Join(Take(times, 3))

\* times and symbol and destination and alert in [True, False]
TrainValid(d) == ~d.none /\ d.times # <<>> /\ d.symbol # "" /\ d.destination # <<>>

----------------------------------------------------------------------------
(* Environment: what the time source and the transit data source can answer *)

DT(dest, offset, now) == Train("Downtown", ROUTE_ID, dest, now + offset, "")
UP(offset, now) == Train("Uptown", ROUTE_ID, Dest2, now + offset, "")

\* answers of MTA_STOP_URL at time now; ok = FALSE is a transport or JSON failure
StopResponses(now) ==
    { [ok |-> FALSE, stopTimes |-> <<>>],
      [ok |-> TRUE, stopTimes |-> <<>>],
      [ok |-> TRUE, stopTimes |-> <<UP(60, now)>>],
      [ok |-> TRUE, stopTimes |-> <<Train("Downtown", ROUTE_ID, Dest1, now + 60, "detail")>>],
      [ok |-> TRUE, stopTimes |-> <<UP(60, now), DT(Dest2, 180, now)>>],
      [ok |-> TRUE, stopTimes |-> <<DT(Dest1, 180, now), UP(200, now),
                                    Train("BROOKLYN", ROUTE_ID, Dest2, now + 420, ""),
                                    DT(Dest2, 900, now), DT(Dest2, 1500, now)>>],
      [ok |-> TRUE, stopTimes |-> <<DT(Dest1, -90, now), DT(Dest1, 1020, now),
                                    DT(Dest1, 1500, now)>>] }

FailedStop == [ok |-> FALSE, stopTimes |-> <<>>]

\* answers of MTA_ROUTE_URL
RouteResponses ==
    {[ok |-> FALSE, alerts |-> 0]} \cup {[ok |-> TRUE, alerts |-> n] : n \in 0..MaxAlerts}

FailedRoute == [ok |-> FALSE, alerts |-> 0]

----------------------------------------------------------------------------
(* 5. scroll *)

\* mutation: the scroll completes on reaching the full length, not on passing it
scrollAtBoundary(text, off) ==
    IF off - 1 <= -1 * CHAR_WIDTH * Len(text)
    THEN [x |-> 0, done |-> TRUE]
    ELSE [x |-> off - 1, done |-> FALSE]

\* scroll(label) on a label of text `text` at offset `off`: the offset it
\* leaves and the value it returns
scroll(text, off) ==
    IF off - 1 < -1 * CHAR_WIDTH * Len(text)
    THEN [x |-> 0, done |-> TRUE]
    ELSE [x |-> off - 1, done |-> FALSE]

----------------------------------------------------------------------------
(* 8. MAIN LOOP *)

\* current_time and isinstance(current_hour, int)
ClockAvailable(ct, ch) == ct # None /\ ct # 0 /\ ch # None

\* mutation: the restart test forgets free memory
RestartDueScheduleOnly(prev, ch, mem) ==
    prev = RESTART_HOUR_PREV /\ ch = RESTART_HOUR

\* mutation: the restart test forgets previous_hour
RestartDueAnyCycle(prev, ch, mem) ==
    ch = RESTART_HOUR \/ mem < MEM_THRESHOLD

\* restart at restart hour or low memory
RestartDue(prev, ch, mem) ==
    (prev = RESTART_HOUR_PREV /\ ch = RESTART_HOUR) \/ mem < MEM_THRESHOLD

\* mutation: the wrap-around test excludes the hour OFF_HOUR from the night
IsActiveStrict(on, off, ch) ==
    IF on < off
    THEN ~(ch < on \/ off <= ch)
    ELSE ~(on > ch /\ ch > off)

\* the value of `active` after the window test
IsActive(on, off, ch) ==
    IF on < off
    THEN ~(ch < on \/ off <= ch)
    ELSE ~(on > ch /\ ch >= off)

\* mutation: an alert is inserted without removing the icon already there
LiveUpdateNoPop(g, top, bottom, alert) ==
    LET g1 == Insert(Pop(g, 0), 0, top)
        g2 == Insert(Pop(g1, 1), 1, bottom)
    IN IF SHOW_ALERT
       THEN IF alert
            THEN Insert(g2, 11, alert_true_icon)
            ELSE IF Len(g2) >= 12 THEN Pop(g2, 11) ELSE g2
       ELSE g2

\* mutation: a cleared alert leaves the alert icon in the scene
LiveUpdateKeepAlert(g, top, bottom, alert) ==
    LET g1 == Insert(Pop(g, 0), 0, top)
        g2 == Insert(Pop(g1, 1), 1, bottom)
    IN IF SHOW_ALERT /\ alert
       THEN Insert(IF Len(g2) >= 12 THEN Pop(g2, 11) ELSE g2, 11, alert_true_icon)
       ELSE g2

\* scene update of a live cycle
LiveUpdate(g, top, bottom, alert) ==
    LET g1 == Insert(Pop(g, 0), 0, top)
        g2 == Insert(Pop(g1, 1), 1, bottom)
    IN IF SHOW_ALERT
       THEN IF alert
            THEN Insert(IF Len(g2) >= 12 THEN Pop(g2, 11) ELSE g2, 11, alert_true_icon)
            ELSE IF Len(g2) >= 12 THEN Pop(g2, 11) ELSE g2
       ELSE g2

\* scene update of a non-live cycle
NonLiveUpdate(g) ==
    IF SHOW_LIVE THEN Insert(Pop(g, 10), 10, live_on_icon) ELSE g

\* mutation: the two phases of the flashing are exchanged
BlinkOnFirst(g, isLive, idx) ==
    IF SHOW_LIVE /\ isLive
    THEN IF idx % (LIVE_ICON_LATENCY * 2) = 0
         THEN Insert(Pop(g, 10), 10, live_on_icon)
         ELSE IF idx % LIVE_ICON_LATENCY = 0
              THEN Insert(Pop(g, 10), 10, live_off_icon)
              ELSE g
    ELSE g

\* mutation: the icon flashes whether or not the data is live
BlinkAlways(g, isLive, idx) ==
    IF SHOW_LIVE
    THEN IF idx % (LIVE_ICON_LATENCY * 2) = 0
         THEN Insert(Pop(g, 10), 10, live_off_icon)
         ELSE IF idx % LIVE_ICON_LATENCY = 0
              THEN Insert(Pop(g, 10), 10, live_on_icon)
              ELSE g
    ELSE g

\* live icon flashing on tick idx
Blink(g, isLive, idx) ==
    IF SHOW_LIVE /\ isLive
    THEN IF idx % (LIVE_ICON_LATENCY * 2) = 0
         THEN Insert(Pop(g, 10), 10, live_off_icon)
         ELSE IF idx % LIVE_ICON_LATENCY = 0
              THEN Insert(Pop(g, 10), 10, live_on_icon)
              ELSE g
    ELSE g

\* the list operations of the scene update of a live cycle, in order
LiveUpdateOps(g, top, bottom, alert) ==
    <<POP(0), INSERT(0, top), POP(1), INSERT(1, bottom)>>
    \o (IF SHOW_ALERT /\ Len(g) >= 12 THEN <<POP(11)>> ELSE <<>>)
    \o (IF SHOW_ALERT /\ alert THEN <<INSERT(11, alert_true_icon)>> ELSE <<>>)

\* the list operations of the scene update of a non-live cycle
NonLiveUpdateOps ==
    IF SHOW_LIVE THEN <<POP(10), INSERT(10, live_on_icon)>> ELSE <<>>

\* the list operations of the live icon flashing on tick idx
BlinkOps(isLive, idx) ==
    IF SHOW_LIVE /\ isLive
    THEN IF idx % (LIVE_ICON_LATENCY * 2) = 0
         THEN <<POP(10), INSERT(10, live_off_icon)>>
         ELSE IF idx % LIVE_ICON_LATENCY = 0
              THEN <<POP(10), INSERT(10, live_on_icon)>>
              ELSE <<>>
    ELSE <<>>

TIME_REQ == "requests.get(TIME_URL)"
STOP_REQ == "requests.get(MTA_STOP_URL)"
ROUTE_REQ == "requests.get(MTA_ROUTE_URL)"
REFRESH == "display.refresh()"
SLEEP_IDLE == "time.sleep(10)"
SLEEP_RETRY == "time.sleep(5)"
SLEEP_TICK == "time.sleep(TEXT_LABEL_LATENCY)"
CLOSE_ALL == "connection_manager_close_all(pool)"

\* what no step of the loop changes
Config == <<on_hour, off_hour, feed>>

\* the history `steady` after a reset cycle that sampled (ct, ch) and read mem
SteadyAfter(ct, ch, mem) ==
    /\ steady
    /\ ClockAvailable(ct, ch)
    /\ mem >= MEM_THRESHOLD
    /\ (current_hour = None \/ ch = current_hour \/ ch = (current_hour + 1) % 24)

\* mutation: the restart branch blanks the display but does not break
RestartNoBreak(ct, ch, mem) ==
    /\ pc' = "body"
    /\ i' = 0 /\ active' = TRUE /\ live' = TRUE
    /\ current_time' = ct /\ current_hour' = ch /\ free_mem' = mem
    /\ steady' = SteadyAfter(ct, ch, mem)
    /\ root_group' = blank_group
    /\ io' = <<TIME_REQ, REFRESH>>
    /\ ops' = <<REFRESHED>>
    /\ UNCHANGED <<setup, reset, previous_hour, train, master_group,
                   text_label_top, x, fetched, Config>>

\* restart branch: blank the display and break
RestartBranch(ct, ch, mem) ==
    /\ pc' = "cleanup"
    /\ i' = 0 /\ active' = TRUE /\ live' = TRUE
    /\ current_time' = ct /\ current_hour' = ch /\ free_mem' = mem
    /\ steady' = SteadyAfter(ct, ch, mem)
    /\ root_group' = blank_group
    /\ io' = <<TIME_REQ, REFRESH>>
    /\ ops' = <<REFRESHED>>
    /\ UNCHANGED <<setup, reset, previous_hour, train, master_group,
                   text_label_top, x, fetched, Config>>

\* mutation: previous_hour is stored before the inactive branch
InactiveStoresHour(ct, ch, mem) ==
    /\ pc' = "idle"
    /\ i' = 0 /\ active' = FALSE /\ live' = TRUE
    /\ current_time' = ct /\ current_hour' = ch /\ free_mem' = mem
    /\ steady' = SteadyAfter(ct, ch, mem)
    /\ previous_hour' = ch
    /\ root_group' = blank_group
    /\ io' = <<TIME_REQ, REFRESH>>
    /\ ops' = <<REFRESHED>>
    /\ UNCHANGED <<setup, reset, train, master_group,
                   text_label_top, x, fetched, Config>>

\* inactive branch: blank the display, wait and continue
InactiveBranch(ct, ch, mem) ==
    /\ pc' = "idle"
    /\ i' = 0 /\ active' = FALSE /\ live' = TRUE
    /\ current_time' = ct /\ current_hour' = ch /\ free_mem' = mem
    /\ steady' = SteadyAfter(ct, ch, mem)
    /\ root_group' = blank_group
    /\ io' = <<TIME_REQ, REFRESH>>
    /\ ops' = <<REFRESHED>>
    /\ UNCHANGED <<setup, reset, previous_hour, train, master_group,
                   text_label_top, x, fetched, Config>>

\* mutation: a failed arrival fetch does not clear the live flag
LiveKept(live0, d) == live0

\* the live flag after the validation of the get_train result d; live0 is the
\* flag after the clock step
LiveAfter(live0, d) == live0 /\ TrainValid(d)

\* the rest of the reset phase: get_train, validation, scene update, root group.
\* live0 is the live flag after the clock step, prev the previous_hour after it.
FetchAndApply(ct, ch, prev, live0, mem, stop, route) ==
    LET r == get_train(stop, route, ct)
        d == r.data
        isLive == LiveAfter(live0, d)
        top == Label("text_label_top", d.destination)
        bottom == Label("text_label_bottom", FormatTimes(d.times))
    IN /\ pc' = "body"
       /\ i' = 0 /\ active' = TRUE /\ live' = isLive
       /\ current_time' = ct /\ current_hour' = ch /\ free_mem' = mem
       /\ steady' = SteadyAfter(ct, ch, mem)
       /\ previous_hour' = prev
       /\ train' = d
       /\ fetched' = (fetched \/ r.requests # <<>>)
       /\ setup' = (setup \/ isLive)
       /\ IF isLive
          THEN /\ text_label_top' = top
               /\ x' = 0
               /\ master_group' = LiveUpdate(master_group, top, bottom, d.alert)
          ELSE /\ master_group' = NonLiveUpdate(master_group)
               /\ UNCHANGED <<text_label_top, x>>
       /\ root_group' = master
       /\ io' = <<TIME_REQ>> \o r.requests
       /\ ops' = (IF isLive
                  THEN LiveUpdateOps(master_group, top, bottom, d.alert)
                  ELSE NonLiveUpdateOps)
       /\ UNCHANGED <<reset, Config>>

\* get_time for one answer of the time source: (current_time, current_hour)
get_time(resp) ==
    IF resp.ok THEN <<EpochOf(resp.hour), resp.hour>> ELSE <<None, None>>

\* answers of TIME_URL; ok = FALSE is a transport or parse failure
TimeResponses == {[ok |-> TRUE, hour |-> h] : h \in Hours} \cup {[ok |-> FALSE, hour |-> 0]}

\* the answers the transit data source can give at time now; when it is not
\* up both requests raise
StopsOffered(up, now) == IF up THEN StopResponses(now) ELSE {FailedStop}
RoutesOffered(up) == IF up THEN RouteResponses ELSE {FailedRoute}

\* the `if reset:` block for one answer of the time source and one reading of
\* mem_free(); the answers of the transit data source are drawn where
\* get_train is called
ResetCycle(resp, mem, up) ==
    LET ct == get_time(resp)[1]
        ch == get_time(resp)[2]
    IN IF ClockAvailable(ct, ch)
       THEN IF RestartDue(previous_hour, ch, mem)
            THEN RestartBranch(ct, ch, mem)
            ELSE IF ~IsActive(on_hour, off_hour, ch)
                 THEN InactiveBranch(ct, ch, mem)
                 ELSE \E stop \in StopsOffered(up, ct), route \in RoutesOffered(up) :
                         FetchAndApply(ct, ch, ch, TRUE, mem, stop, route)
       ELSE \E stop \in StopsOffered(up, EpochOf(0)), route \in RoutesOffered(up) :
               FetchAndApply(ct, ch, previous_hour, FALSE, mem, stop, route)

ResetPhase ==
    /\ pc = "top" /\ reset
    /\ \E resp \in TimeResponses, mem \in MemReadings :
          ResetCycle(resp, mem, TRUE)

\* a reset phase while the transit data source is unreachable and memory is
\* not low
ResetPhaseDown ==
    /\ pc = "top" /\ reset
    /\ \E resp \in TimeResponses :
          ResetCycle(resp, MEM_THRESHOLD, FALSE)

\* time.sleep(10); continue
IdleWait ==
    /\ pc = "idle"
    /\ pc' = "top"
    /\ io' = <<SLEEP_IDLE>>
    /\ ops' = <<>>
    /\ UNCHANGED <<setup, reset, previous_hour, i, active, live, current_time,
                   current_hour, train, master_group, text_label_top, x,
                   root_group, free_mem, fetched, steady, Config>>

AtBody == pc = "body" \/ (pc = "top" /\ ~reset)

\* mutation: every tick asks for a reset
TickAlwaysReset ==
    /\ AtBody /\ setup
    /\ LET s == scroll(text_label_top.text, x) IN
        /\ x' = s.x
        /\ reset' = TRUE
        /\ master_group' = Blink(master_group, live, i)
        /\ io' = <<SLEEP_TICK>>
        /\ ops' = <<SCROLL>> \o BlinkOps(live, i)
    /\ i' = i + 1
    /\ pc' = "top"
    /\ UNCHANGED <<setup, previous_hour, active, live, current_time, current_hour,
                   train, text_label_top, root_group, free_mem, fetched, steady, Config>>

\* mutation: the tick refreshes before the live icon is written
TickRefreshFirst ==
    /\ AtBody /\ setup
    /\ LET s == scroll(text_label_top.text, x) IN
        /\ x' = s.x
        /\ reset' = s.done
        /\ master_group' = Blink(master_group, live, i)
        /\ ops' = <<SCROLL>> \o (IF s.done THEN <<>> ELSE <<REFRESHED>>)
                   \o BlinkOps(live, i)
        /\ io' = (IF s.done THEN <<>> ELSE <<REFRESH>>) \o <<SLEEP_TICK>>
    /\ i' = i + 1
    /\ pc' = "top"
    /\ UNCHANGED <<setup, previous_hour, active, live, current_time, current_hour,
                   train, text_label_top, root_group, free_mem, fetched, steady, Config>>

\* if setup: one animation tick
Tick ==
    /\ AtBody /\ setup
    /\ LET s == scroll(text_label_top.text, x) IN
        /\ x' = s.x
        /\ reset' = s.done
        /\ master_group' = Blink(master_group, live, i)
        /\ ops' = <<SCROLL>> \o BlinkOps(live, i)
                   \o (IF s.done THEN <<>> ELSE <<REFRESHED>>)
        /\ io' = (IF s.done THEN <<>> ELSE <<REFRESH>>) \o <<SLEEP_TICK>>
    /\ i' = i + 1
    /\ pc' = "top"
    /\ UNCHANGED <<setup, previous_hour, active, live, current_time, current_hour,
                   train, text_label_top, root_group, free_mem, fetched, steady, Config>>

\* mutation: the loop animates only while the data is live
RetryUnlessLive ==
    /\ AtBody /\ (~setup \/ ~live)
    /\ reset' = TRUE
    /\ io' = <<SLEEP_RETRY>>
    /\ ops' = <<>>
    /\ pc' = "top"
    /\ UNCHANGED <<setup, previous_hour, i, active, live, current_time, current_hour,
                   train, master_group, text_label_top, x, root_group, free_mem,
                   fetched, steady, Config>>

\* mutation: after a failed setup the script ends instead of retrying
RetryGivesUp ==
    /\ AtBody /\ ~setup
    /\ reset' = TRUE
    /\ io' = <<SLEEP_RETRY>>
    /\ ops' = <<>>
    /\ pc' = "done"
    /\ UNCHANGED <<setup, previous_hour, i, active, live, current_time, current_hour,
                   train, master_group, text_label_top, x, root_group, free_mem,
                   fetched, steady, Config>>

\* else: setup failed, wait before retrying
Retry ==
    /\ AtBody /\ ~setup
    /\ reset' = TRUE
    /\ io' = <<SLEEP_RETRY>>
    /\ ops' = <<>>
    /\ pc' = "top"
    /\ UNCHANGED <<setup, previous_hour, i, active, live, current_time, current_hour,
                   train, master_group, text_label_top, x, root_group, free_mem,
                   fetched, steady, Config>>

(* 9. CLEANUP *)
Cleanup ==
    /\ pc = "cleanup"
    /\ pc' = "done"
    /\ root_group' = blank_group
    /\ io' = <<CLOSE_ALL>>
    /\ ops' = <<>>
    /\ UNCHANGED <<setup, reset, previous_hour, i, active, live, current_time,
                   current_hour, train, master_group, text_label_top, x,
                   free_mem, fetched, steady, Config>>

\* state after sections 6 and 7 and the three assignments of lines 277-279;
\* i, active, live, current_time, current_hour and the get_train results are
\* not bound yet and get placeholder values
InitLoop ==
    /\ pc = "top"
    /\ setup = FALSE /\ reset = TRUE
    /\ previous_hour = RESTART_HOUR
    /\ i = 0 /\ active = TRUE /\ live = FALSE
    /\ current_time = None /\ current_hour = None
    /\ train = NoData
    /\ master_group = InitMasterGroup
    /\ text_label_top = Label("text_label_top", <<>>)
    /\ x = 0
    /\ root_group = master
    /\ free_mem = MEM_THRESHOLD
    /\ fetched = FALSE
    /\ feed = [stop |-> FailedStop, route |-> FailedRoute]
    /\ steady = TRUE
    /\ io = <<REFRESH>>
    /\ ops = <<REFRESHED>>

Init == InitLoop /\ on_hour = ON_HOUR /\ off_hour = OFF_HOUR

Next == ResetPhase \/ IdleWait \/ Tick \/ Retry \/ Cleanup

Spec == Init /\ [][Next]_vars

\* The loop under fairness, with the clock sampled at an active hour before
\* and after midnight, at the inactive hours RESTART_HOUR - 1 and
\* RESTART_HOUR, or failing.  The script is one sequential process: whenever
\* a step is possible, one is taken.
SampledHours == {ON_HOUR, OFF_HOUR - 1, RESTART_HOUR_PREV, RESTART_HOUR}

SampledTimeResponses ==
    {[ok |-> TRUE, hour |-> h] : h \in SampledHours} \cup {[ok |-> FALSE, hour |-> 0]}

ResetPhaseSampled ==
    /\ pc = "top" /\ reset
    /\ \E resp \in SampledTimeResponses, mem \in MemReadings :
          ResetCycle(resp, mem, TRUE)

NextFair == ResetPhaseSampled \/ IdleWait \/ Tick \/ Retry \/ Cleanup

SpecFair == Init /\ [][NextFair]_vars /\ WF_vars(NextFair)

\* every schedule (ON_HOUR, OFF_HOUR) in 0..23, with the transit data source
\* unreachable: the clock gate of the reset phase on its own
InitWindow == InitLoop /\ on_hour \in Hours /\ off_hour \in Hours

NextWindow == ResetPhaseDown \/ IdleWait \/ Retry \/ Cleanup

SpecWindow == InitWindow /\ [][NextWindow]_vars

----------------------------------------------------------------------------
(* scroll on its own: repeated calls on a label of any length up to
   MaxTextLen, starting at offset 0; i counts the calls of the traversal *)

MaxTextLen == 10

TextOfLen(n) == [k \in 1..n |-> "x"]

InitScroll ==
    /\ pc = "top"
    /\ setup = TRUE /\ reset = FALSE
    /\ previous_hour = RESTART_HOUR
    /\ i = 0 /\ active = TRUE /\ live = FALSE
    /\ current_time = None /\ current_hour = None
    /\ train = NoData
    /\ \E n \in 0..MaxTextLen :
          /\ text_label_top = Label("text_label_top", TextOfLen(n))
          /\ master_group = Insert(Pop(InitMasterGroup, 0), 0, text_label_top)
    /\ x = 0
    /\ root_group = master
    /\ on_hour = ON_HOUR /\ off_hour = OFF_HOUR
    /\ free_mem = MEM_THRESHOLD
    /\ fetched = FALSE
    /\ feed = [stop |-> FailedStop, route |-> FailedRoute]
    /\ steady = TRUE
    /\ io = <<>>
    /\ ops = <<>>

\* reset = scroll(text_label_top)
ScrollStep ==
    /\ LET s == scroll(text_label_top.text, x) IN
          /\ x' = s.x
          /\ reset' = s.done
    /\ i' = IF reset THEN 1 ELSE i + 1
    /\ ops' = <<SCROLL>>
    /\ UNCHANGED <<pc, setup, previous_hour, active, live, current_time,
                   current_hour, train, master_group, text_label_top,
                   root_group, free_mem, fetched, steady, io, Config>>

SpecScroll == InitScroll /\ [][ScrollStep]_vars

----------------------------------------------------------------------------
(* formatted_times on its own: the bottom label made from any list of 1 to
   MaxTimes times *)

MaxTimes == 4

TimeValues == {0, 3, 7, 15, 17, 25, 100}

TimesLists == UNION {[1..n -> TimeValues] : n \in 1..MaxTimes}

InitFormat ==
    /\ pc = "top"
    /\ setup = FALSE /\ reset = TRUE
    /\ previous_hour = RESTART_HOUR
    /\ i = 0 /\ active = TRUE /\ live = TRUE
    /\ current_time = EpochOf(ON_HOUR) /\ current_hour = ON_HOUR
    /\ \E ts \in TimesLists :
          train = [none |-> FALSE, times |-> ts, symbol |-> ROUTE_ID,
                   destination |-> Dest1, alert |-> FALSE]
    /\ master_group = InitMasterGroup
    /\ text_label_top = Label("text_label_top", <<>>)
    /\ x = 0
    /\ root_group = master
    /\ on_hour = ON_HOUR /\ off_hour = OFF_HOUR
    /\ free_mem = MEM_THRESHOLD
    /\ fetched = TRUE
    /\ feed = [stop |-> FailedStop, route |-> FailedRoute]
    /\ steady = TRUE
    /\ io = <<>>
    /\ ops = <<>>

\* formatted_times and the bottom label made from it
FormatStep ==
    /\ pc = "top"
    /\ pc' = "body"
    /\ master_group' = Insert(Pop(master_group, 1), 1,
                              Label("text_label_bottom", FormatTimes(train.times)))
    /\ ops' = <<POP(1), INSERT(1, Label("text_label_bottom", FormatTimes(train.times)))>>
    /\ UNCHANGED <<setup, reset, previous_hour, i, active, live, current_time,
                   current_hour, train, text_label_top, x, root_group,
                   free_mem, fetched, steady, io, Config>>

SpecFormat == InitFormat /\ [][FormatStep]_vars

----------------------------------------------------------------------------
(* get_train on its own: one call on any stop answer of up to MaxTrains
   entries of EntryPool, any route answer, with or without a clock sample *)

MaxTrains == 4

\* the pool: departures 180 s and 119 s ahead of the clock sample and 90 s
\* behind it; accepted, upper-case and other direction labels; entries
\* lacking the direction label or a field of the trip
EntryPool(now) ==
    { Train("Downtown", ROUTE_ID, Dest1, now + 180, ""),
      Train("BROOKLYN", "N", Dest2, now - 90, ""),
      Train("Downtown", ROUTE_ID, Dest2, now + 119, ""),
      Train("Uptown", ROUTE_ID, Dest2, now + 180, ""),
      Train("Downtown", ROUTE_ID, Dest1, now + 180, "detail"),
      Train("Uptown", ROUTE_ID, Dest2, now + 180, "detail"),
      Train("Downtown", ROUTE_ID, Dest1, now + 180, "headsign") }

StopFeeds(now) ==
    {FailedStop} \cup
    {[ok |-> TRUE, stopTimes |-> ts] :
        ts \in UNION {[1..n -> EntryPool(now)] : n \in 0..MaxTrains}}

InitFetch ==
    /\ pc = "top"
    /\ setup = FALSE /\ reset = TRUE
    /\ previous_hour = RESTART_HOUR
    /\ i = 0 /\ active = TRUE /\ live = TRUE
    /\ \E resp \in {[ok |-> TRUE, hour |-> ON_HOUR], [ok |-> FALSE, hour |-> 0]} :
          /\ current_time = get_time(resp)[1]
          /\ current_hour = get_time(resp)[2]
    /\ train = NoData
    /\ master_group = InitMasterGroup
    /\ text_label_top = Label("text_label_top", <<>>)
    /\ x = 0
    /\ root_group = master
    /\ on_hour = ON_HOUR /\ off_hour = OFF_HOUR
    /\ free_mem = MEM_THRESHOLD
    /\ fetched = FALSE
    /\ \E stop \in StopFeeds(EpochOf(ON_HOUR)), route \in RouteResponses :
          feed = [stop |-> stop, route |-> route]
    /\ steady = TRUE
    /\ io = <<>>
    /\ ops = <<>>

\* times, symbol, destination, alert = get_train(requests, current_time)
FetchStep ==
    /\ pc = "top"
    /\ pc' = "body"
    /\ LET r == get_train(feed.stop, feed.route, current_time) IN
          /\ train' = r.data
          /\ io' = r.requests
          /\ fetched' = (r.requests # <<>>)
    /\ ops' = <<>>
    /\ UNCHANGED <<setup, reset, previous_hour, i, active, live, current_time,
                   current_hour, master_group, text_label_top, x, root_group,
                   free_mem, steady, Config>>

SpecFetch == InitFetch /\ [][FetchStep]_vars

----------------------------------------------------------------------------
(* Vocabulary of the properties *)

\* this step is a reset phase (the `if reset:` block ran)
ResetStep == pc = "top" /\ reset /\ pc' # pc

\* this step is an animation tick
TickStep == i' = i + 1

\* the call e is among the collaborator calls log
Called(e, log) == \E k \in 1..Len(log) : log[k] = e

\* the active window as the schedule defines it
InWindow(on, off, h) ==
    IF on < off THEN on <= h /\ h < off ELSE h >= on \/ h < off

\* the clock sample of the step's reset cycle asks for a restart
RestartAsked ==
    \/ previous_hour = RESTART_HOUR_PREV /\ current_hour' = RESTART_HOUR
    \/ free_mem' < MEM_THRESHOLD

\* the alert slot of scene g, <<>> when absent
AlertSlot(g) == SubSeq(g, 12, Len(g))

----------------------------------------------------------------------------
(* C1: scheduled restart.  In a run where every clock fetch succeeded, memory
   was never low and the sampled hour advanced cyclically (steady), the
   reset cycle that samples hour RESTART_HOUR right after a reset cycle that
   sampled hour RESTART_HOUR - 1 blanks the display and leaves the loop.
   The code does not do this for ON_HOUR = 12, OFF_HOUR = 3, RESTART_HOUR = 4:
   hour 3 is outside the active window, so previous_hour never becomes 3. *)
C1_ScheduledRestart ==
    [][(/\ ResetStep
        /\ steady'
        /\ current_hour = RESTART_HOUR_PREV
        /\ current_hour' = RESTART_HOUR)
       => (pc' = "cleanup" /\ root_group' = blank_group)]_vars

(* C2: no double firing.  With memory not low a reset cycle restarts only if
   previous_hour holds RESTART_HOUR - 1, a value it does not start with and
   that only an active reset cycle can store; a cycle in hour RESTART_HOUR
   that finds previous_hour = RESTART_HOUR does not restart and leaves
   previous_hour at RESTART_HOUR. *)
C2_NoDoubleFire ==
    [][/\ (ResetStep /\ pc' = "cleanup" /\ free_mem' >= MEM_THRESHOLD)
            => (previous_hour = RESTART_HOUR_PREV /\ previous_hour # RESTART_HOUR)
       /\ (previous_hour' # previous_hour)
            => (ResetStep /\ pc' = "body" /\ previous_hour' = current_hour')
       /\ (/\ ResetStep
           /\ previous_hour = RESTART_HOUR /\ current_hour' = RESTART_HOUR
           /\ free_mem' >= MEM_THRESHOLD)
            => (pc' # "cleanup" /\ previous_hour' = RESTART_HOUR)]_vars

\* the scheduled restart has fired
C2_Witness ==
    /\ pc = "cleanup"
    /\ previous_hour = RESTART_HOUR_PREV /\ current_hour = RESTART_HOUR
    /\ free_mem >= MEM_THRESHOLD

(* C3: active window.  A reset cycle with an available clock that does not
   restart goes on to the fetch (is Active) iff on <= hour < off when
   on < off, and iff hour >= on or hour < off when on > off. *)
C3_ActiveWindow ==
    [][(ResetStep /\ current_time' # None /\ pc' # "cleanup")
       => /\ on_hour < off_hour =>
               ((pc' = "body" /\ active')
                  <=> (on_hour <= current_hour' /\ current_hour' < off_hour))
          /\ on_hour > off_hour =>
               ((pc' = "body" /\ active')
                  <=> (current_hour' >= on_hour \/ current_hour' < off_hour))
          /\ (pc' = "idle") <=> ~active']_vars

\* a wrap-around window, sampled at its boundary hour off_hour: inactive
C3_Witness ==
    /\ on_hour > off_hour /\ current_hour = off_hour
    /\ pc = "idle" /\ ~active /\ root_group = blank_group

(* C4 as stated: after a reset cycle that went on to the scene update with
   live = false, the next step of the loop is an animation tick -- also
   before any fetch has succeeded. *)
C4_AlwaysAnimates ==
    [][(pc = "body" /\ ~live) => (TickStep /\ ~live')]_vars

(* C4 amended: a reset cycle that is neither Inactive nor Restart and is not
   live leaves the display on the master scene; once setup is latched every
   following step of the cycle is an animation tick with live = false that
   scrolls and refreshes unless the scroll completed; while setup is false
   the loop runs no tick and no refresh: it waits 5 and resets again. *)
C4_DegradesOnceSetup ==
    [][/\ (ResetStep /\ pc' = "body" /\ ~live') => root_group' = master
       /\ (AtBody /\ ~live /\ setup)
            => /\ TickStep /\ ~live' /\ setup'
               /\ x' = scroll(text_label_top.text, x).x
               /\ Called(REFRESH, io') <=> ~reset'
       /\ (AtBody /\ ~live /\ ~setup)
            => /\ io' = <<SLEEP_RETRY>> /\ pc' = "top" /\ reset'
               /\ i' = i /\ x' = x /\ master_group' = master_group]_vars

\* a tick has run in a non-live cycle of a populated scene
C4_Witness ==
    /\ pc = "top" /\ ~reset /\ ~live /\ setup /\ i > 0
    /\ io = <<REFRESH, SLEEP_TICK>>

(* C5 as stated: a reset cycle whose clock fetch fails is non-live, does not
   blank the display, and requests the transit data source. *)
C5_FetchRequested ==
    [][(ResetStep /\ current_time' = None)
       => (~live' /\ root_group' = master /\ Called(STOP_REQ, io'))]_vars

(* C5 amended: a reset cycle whose clock fetch fails is non-live and does not
   blank the display; get_train is called but returns "no data" without any
   request to the transit data source, and the scene gets the non-live
   update (live indicator on, everything else as before). *)
C5_ClockUnavailable ==
    [][(ResetStep /\ current_time' = None)
       => /\ ~live' /\ pc' = "body" /\ root_group' = master
          /\ io' = <<TIME_REQ>> /\ train' = NoData /\ fetched' = fetched
          /\ Len(master_group') = Len(master_group)
          /\ \A k \in 1..Len(master_group) :
                master_group'[k] = IF k = 11 THEN live_on_icon ELSE master_group[k]]_vars

\* a populated scene after a reset cycle without clock
C5_Witness ==
    /\ pc = "body" /\ current_time = None /\ setup /\ ~live
    /\ root_group = master /\ io = <<TIME_REQ>>

(* C6 as stated: every arrival fetch after the first of the process comes
   right after a tick on which the scroll of the top label completed. *)
C6_ScrollSoleTrigger ==
    [][(ResetStep /\ fetched /\ Called(STOP_REQ, io'))
       => (io = <<SLEEP_TICK>> /\ x = 0)]_vars

(* C6 amended: every arrival fetch after the first comes right after a tick
   on which the scroll of the top label completed (offset back at 0 after
   6 * len + 1 ticks), or after the idle wait (10) of an inactive cycle, or,
   only while setup is false, after the retry wait (5). *)
C6_FetchTriggers ==
    [][(ResetStep /\ fetched /\ Called(STOP_REQ, io'))
       => \/ /\ io = <<SLEEP_TICK>> /\ x = 0
             /\ i = CHAR_WIDTH * Len(text_label_top.text) + 1
          \/ io = <<SLEEP_IDLE>>
          \/ io = <<SLEEP_RETRY>> /\ ~setup]_vars

\* the scroll of a two-character label has just completed on tick 13 and the
\* loop is about to fetch again
C6_Witness ==
    /\ pc = "top" /\ reset /\ setup /\ fetched
    /\ io = <<SLEEP_TICK>> /\ x = 0
    /\ text_label_top.text = Dest1 /\ i = CHAR_WIDTH * 2 + 1

(* C7: a reset cycle of a populated scene that ends with live = false leaves
   the top text, bottom text and alert slots as they were and puts the "on"
   icon in the live-indicator slot; while live is false no step changes
   these slots or takes the "on" icon out of the indicator slot. *)
C7_NonLiveHoldsScene ==
    /\ []((setup /\ ~live) => master_group[11] = live_on_icon)
    /\ [][/\ (ResetStep /\ setup /\ pc' = "body" /\ ~live')
               => /\ master_group'[1] = master_group[1]
                  /\ master_group'[2] = master_group[2]
                  /\ AlertSlot(master_group') = AlertSlot(master_group)
                  /\ master_group'[11] = live_on_icon
          /\ (setup /\ ~live /\ AtBody)
               => /\ master_group'[1] = master_group[1]
                  /\ master_group'[2] = master_group[2]
                  /\ AlertSlot(master_group') = AlertSlot(master_group)
                  /\ master_group'[11] = live_on_icon]_vars

\* tick 12 of a non-live cycle has run on a scene with an alert
C7_Witness ==
    /\ setup /\ ~live /\ i = 2 * LIVE_ICON_LATENCY + 1
    /\ AlertSlot(master_group) = <<alert_true_icon>>
    /\ master_group[11] = live_on_icon

(* C8: after a reset cycle that ends with live = true the top text slot shows
   the destination and the bottom text slot the formatted times of the data
   fetched in that cycle, and the alert slot is present iff that data's alert
   is true. *)
C8_LiveApply ==
    [][(ResetStep /\ pc' = "body" /\ live')
       => /\ master_group'[1] = Label("text_label_top", train'.destination)
          /\ master_group'[2] = Label("text_label_bottom", FormatTimes(train'.times))
          /\ text_label_top' = master_group'[1]
          /\ train'.times # <<>> /\ train'.destination # <<>>
          /\ AlertSlot(master_group') =
                (IF train'.alert THEN <<alert_true_icon>> ELSE <<>>)
          /\ \A k \in 3..11 : master_group'[k] = master_group[k]]_vars

\* a live cycle with three long times and an alert
C8_Witness ==
    /\ pc = "body" /\ live /\ train.alert
    /\ train.times = <<0, 17, 25>>
    /\ master_group[2].text = <<"0", ",", "1", "7">>
    /\ master_group[1].text = Dest1
    /\ Len(master_group) = 12

(* C9: a reset cycle that takes the Restart branch sets the display root to
   the blank scene, refreshes and leaves the loop; from then on the root
   stays blank and no step fetches the clock or arrivals, changes the scene,
   scrolls or refreshes. *)
C9_RestartTerminal ==
    /\ [](pc \in {"cleanup", "done"} => root_group = blank_group)
    /\ [][/\ (ResetStep /\ current_time' # None /\ RestartAsked)
               => /\ pc' = "cleanup" /\ root_group' = blank_group
                  /\ io' = <<TIME_REQ, REFRESH>>
                  /\ master_group' = master_group
          /\ (pc \in {"cleanup", "done"})
               => /\ pc' = "done" /\ root_group' = blank_group
                  /\ io' = <<CLOSE_ALL>>
                  /\ master_group' = master_group /\ x' = x /\ i' = i
                  /\ current_time' = current_time /\ train' = train]_vars

\* the process has ended after a restart of a populated scene
C9_Witness == pc = "done" /\ setup /\ root_group = blank_group /\ io = <<CLOSE_ALL>>

(* C10: a reset cycle with an available clock, no restart and an hour outside
   the active window sets the display root to the blank scene and refreshes,
   makes no arrival fetch, runs no tick, leaves the scene, previous_hour and
   setup unchanged and waits; after the wait of 10 the loop is in the reset
   phase again. *)
C10_InactiveCycle ==
    [][/\ (/\ ResetStep /\ current_time' # None /\ ~RestartAsked
           /\ ~InWindow(on_hour, off_hour, current_hour'))
            => /\ pc' = "idle" /\ root_group' = blank_group
               /\ io' = <<TIME_REQ, REFRESH>>
               /\ master_group' = master_group /\ x' = x
               /\ text_label_top' = text_label_top
               /\ previous_hour' = previous_hour /\ setup' = setup
               /\ fetched' = fetched
       /\ (pc = "idle")
            => /\ io' = <<SLEEP_IDLE>> /\ pc' = "top" /\ reset'
               /\ master_group' = master_group /\ x' = x /\ i' = i
               /\ previous_hour' = previous_hour /\ setup' = setup
               /\ root_group' = blank_group]_vars

\* the idle wait of an inactive cycle of a populated scene
C10_Witness ==
    /\ pc = "idle" /\ setup /\ root_group = blank_group
    /\ ~InWindow(on_hour, off_hour, current_hour)
    /\ io = <<TIME_REQ, REFRESH>>

(* C11: the loop always continues.  In every execution the reset phase is
   entered again and again unless the Restart branch is taken; and a reset
   cycle whose clock fetch or arrival fetch fails, whatever the failure, goes
   on to the body of the loop as a non-live cycle on the master scene with
   the indicator on. *)
C11_LoopContinues ==
    /\ ([]<>(pc = "top" /\ reset)) \/ <>(pc = "cleanup")
    /\ [][(ResetStep /\ pc' = "body" /\ (current_time' = None \/ train'.none))
          => /\ ~live' /\ root_group' = master
             /\ setup' = setup /\ reset'
             /\ master_group'[11] = live_on_icon
             /\ text_label_top' = text_label_top]_vars

\* a populated scene back in the reset phase after a cycle whose arrival
\* fetch failed although the clock was available
C11_Witness ==
    /\ pc = "top" /\ reset /\ setup /\ ~live
    /\ current_time # None /\ train.none /\ io = <<SLEEP_TICK>>

(* C12: live flag.  A reset cycle ends with live = true only if its clock
   fetch succeeded and its own stop and alert requests were made and gave
   valid data; without a clock sample the cycle is not live; ticks do not
   change live, so during every tick live is the verdict of the current
   cycle. *)
C12_LiveFlag ==
    [][/\ (ResetStep /\ pc' = "body" /\ live')
            => /\ current_time' # None /\ current_hour' # None
               /\ io' = <<TIME_REQ, STOP_REQ, ROUTE_REQ>>
               /\ ~train'.none /\ train'.times # <<>>
       /\ (ResetStep /\ current_time' = None) => ~live'
       /\ (AtBody /\ setup)
            => /\ TickStep /\ live' = live
               /\ live => (current_time # None /\ ~train.none)]_vars

\* a tick of a non-live cycle that follows a live one: the flag did not carry over
C12_Witness ==
    /\ setup /\ ~live /\ i > 0 /\ pc = "top" /\ train.none
    /\ master_group[1].text = Dest1

(* C13: scroll animator.  For a label of length L each call of scroll moves
   the offset down by 1; it returns true exactly when the moved offset is
   below -6 * L, and then the offset is back at 0; from offset 0 that happens
   on call 6 * L + 1 of the traversal and on no earlier call; the offset
   after a call is always within -6 * L .. 0. *)
C13_ScrollAnimator ==
    [][(x' # x \/ i' # i \/ reset' # reset)
       => LET L == Len(text_label_top.text) IN
          /\ reset' <=> (x - 1 < -(6 * L))
          /\ reset' => x' = 0
          /\ ~reset' => x' = x - 1
          /\ x' \in (-(6 * L))..0
          /\ reset' <=> (i' = 6 * L + 1)]_vars

\* a label of length 10: the offset has passed -60 on call 61
C13_Witness ==
    /\ Len(text_label_top.text) = 10 /\ reset /\ i = 61 /\ x = 0

\* the decimal rendering of the values of TimeValues
Rendered(t) ==
    CASE t = 0 -> <<"0">> [] t = 3 -> <<"3">> [] t = 7 -> <<"7">>
      [] t = 15 -> <<"1", "5">> [] t = 17 -> <<"1", "7">> [] t = 25 -> <<"2", "5">>
      [] t = 100 -> <<"1", "0", "0">>

\* the first two and the first three times of ts joined by ','
Joined2(ts) ==
    IF Len(ts) = 1 THEN Rendered(ts[1])
    ELSE Rendered(ts[1]) \o <<",">> \o Rendered(ts[2])

Joined3(ts) ==
    IF Len(ts) <= 2 THEN Joined2(ts)
    ELSE Rendered(ts[1]) \o <<",">> \o Rendered(ts[2]) \o <<",">> \o Rendered(ts[3])

(* C14: times formatting.  The bottom text is the first (at most 3) times
   joined by ','; if that is longer than 6 characters it is the first 2
   joined by ','.  [3,7,15] gives "3,7,15" and [3,17,25] gives "3,17". *)
C14_TimesFormat ==
    (pc = "body")
       => /\ master_group[2].text =
                (IF Len(Joined3(train.times)) > 6
                 THEN Joined2(train.times) ELSE Joined3(train.times))
          /\ train.times = <<3, 7, 15>>
                => master_group[2].text = <<"3", ",", "7", ",", "1", "5">>
          /\ train.times = <<3, 17, 25>>
                => master_group[2].text = <<"3", ",", "1", "7">>

\* [3,17,25] has been formatted
C14_Witness ==
    /\ pc = "body" /\ train.times = <<3, 17, 25>>
    /\ master_group[2] = Label("text_label_bottom", <<"3", ",", "1", "7">>)

\* entry e carries a direction label that is accepted case-insensitively
Accepted(e) == e.missing # "headsign" /\ e.headsign \in {"Downtown", "BROOKLYN"}

\* the number of entries the scan reads: up to the third accepted one
ScannedLen(ts) ==
    LET hits(k) == Cardinality({j \in 1..k : Accepted(ts[j])})
    IN IF \E k \in 1..Len(ts) : hits(k) = 3
       THEN CHOOSE k \in 1..Len(ts) : hits(k) = 3 /\ hits(k - 1) = 2
       ELSE Len(ts)

\* the accepted entries among the scanned ones, in server order
Picks(ts) == SelectSeq(SubSeq(ts, 1, ScannedLen(ts)), Accepted)

\* a scanned entry lacks a field the scan reads
Unreadable(ts) ==
    \E k \in 1..ScannedLen(ts) :
        \/ ts[k].missing = "headsign"
        \/ Accepted(ts[k]) /\ ts[k].missing = "detail"

\* some entry of the answer lacks a field
SomeMissing(ts) == \E k \in 1..Len(ts) : ts[k].missing # ""

\* whole minutes left until dep, floored at 0
MinutesLeft(dep, now) == IF dep - now < 0 THEN 0 ELSE (dep - now) \div 60

\* the result describes the picks of the answer
Selected(d, ts, now) ==
    /\ Len(d.times) = Len(Picks(ts)) /\ Len(d.times) \in 1..3
    /\ \A k \in 1..Len(d.times) : d.times[k] = MinutesLeft(Picks(ts)[k].dep, now)
    /\ d.symbol = Picks(ts)[1].route
    /\ d.destination = Picks(ts)[1].dest
    /\ d.alert = (feed.route.alerts > 0)

(* C15 as stated: a result is either the selection (first three accepted
   entries in server order, minutes floored at 0, symbol and destination of
   the first) or "no data", and it is "no data" whenever no entry is
   accepted, any entry lacks a required field, or the alert fetch fails. *)
C15_AnyMissingFails ==
    (pc = "body")
       => /\ train.none => train = NoData
          /\ ~train.none => Selected(train, feed.stop.stopTimes, current_time)
          /\ (\/ ~feed.stop.ok \/ ~feed.route.ok
              \/ Picks(feed.stop.stopTimes) = <<>>
              \/ SomeMissing(feed.stop.stopTimes)) => train.none

(* C15 amended: as stated, except that a missing field makes the result
   "no data" only when the scan reads it: the direction label of an entry up
   to the third accepted one, or the route, destination or departure of an
   accepted entry among those.  In every other case with a clock sample, a
   stop answer with an accepted entry and an alert answer, the result is the
   selection. *)
C15_ArrivalSelection ==
    (pc = "body")
       => /\ train.none => train = NoData
          /\ ~train.none => Selected(train, feed.stop.stopTimes, current_time)
          /\ train.none <=>
                \/ current_time = None
                \/ ~feed.stop.ok \/ ~feed.route.ok
                \/ Picks(feed.stop.stopTimes) = <<>>
                \/ Unreadable(feed.stop.stopTimes)

\* four accepted entries, the first already departed: three are returned
C15_Witness ==
    /\ pc = "body" /\ ~train.none
    /\ Len(feed.stop.stopTimes) = 4
    /\ \A k \in 1..4 : Accepted(feed.stop.stopTimes[k])
    /\ train.times = <<0, 1, 3>> /\ train.symbol = "N" /\ train.destination = Dest2

(* C16: low memory and the clock.  A reset cycle that reads free memory
   below the threshold takes the Restart branch iff its clock sample was
   obtained, whatever the hour and previous_hour; without the sample the
   cycle is only non-live and the loop goes on. *)
C16_LowMemoryRestart ==
    [][(ResetStep /\ free_mem' < MEM_THRESHOLD)
       => /\ (pc' = "cleanup") <=> (current_time' # None)
          /\ (current_time' # None)
                => (root_group' = blank_group /\ io' = <<TIME_REQ, REFRESH>>)
          /\ (current_time' = None)
                => (pc' = "body" /\ ~live' /\ root_group' = master)]_vars

\* low memory has restarted the loop at an hour outside the active window
\* that is not the restart hour
C16_Witness ==
    /\ pc = "cleanup" /\ free_mem < MEM_THRESHOLD
    /\ ~InWindow(on_hour, off_hour, current_hour)
    /\ current_hour # RESTART_HOUR /\ previous_hour # RESTART_HOUR_PREV

(* C17: blinker cadence.  Every reset phase sets the tick index to 0; a tick
   with index i of a live cycle leaves the indicator slot off when
   floor(i / N) is even and on when it is odd (N = LIVE_ICON_LATENCY), writing
   it only when i is a multiple of N; a tick of a non-live cycle does not
   touch the scene. *)
C17_BlinkerCadence ==
    [][/\ ResetStep => i' = 0
       /\ (TickStep /\ live)
            => /\ master_group'[11] =
                     (IF (i \div LIVE_ICON_LATENCY) % 2 = 0
                      THEN live_off_icon ELSE live_on_icon)
               /\ (i % LIVE_ICON_LATENCY # 0) => master_group' = master_group
               /\ \A k \in 1..Len(master_group) :
                     k # 11 => master_group'[k] = master_group[k]
               /\ Len(master_group') = Len(master_group)
       /\ (TickStep /\ ~live) => master_group' = master_group]_vars

\* tick 12 of a live cycle has switched the indicator off again
C17_Witness ==
    /\ live /\ setup /\ i = 2 * LIVE_ICON_LATENCY + 1
    /\ master_group[11] = live_off_icon

\* the entry e of ops is a list operation on the scene
IsListOp(e) == e.op \in {"pop", "insert"}

\* scene g after the list operations of log, in order
RECURSIVE Replay(_, _)
Replay(g, log) ==
    IF log = <<>>
    THEN g
    ELSE LET e == Head(log)
             g1 == IF e.op = "pop" THEN Pop(g, e.at)
                   ELSE IF e.op = "insert" THEN Insert(g, e.at, e.elem)
                   ELSE g
         IN Replay(g1, Tail(log))

(* C18: refresh ordering.  The scene after a step is the scene before it with
   the step's list operations applied in order.  An animation tick starts
   with the scroll step, then writes the live icon slot, and calls
   display.refresh() last of all, followed only by the sleep, iff the scroll
   did not complete on this tick.  No step calls display.refresh() after one
   list operation and before another, and a reset cycle that updates the
   scene calls no refresh at all. *)
C18_RefreshOrdering ==
    [][/\ master_group' = Replay(master_group, ops')
       /\ TickStep
            => /\ ops'[1] = SCROLL
               /\ \A k \in 1..Len(ops') :
                     ops'[k] = REFRESHED => k = Len(ops')
               /\ (ops'[Len(ops')] = REFRESHED) <=> ~reset'
               /\ io' = (IF reset' THEN <<>> ELSE <<REFRESH>>) \o <<SLEEP_TICK>>
       /\ \A k \in 1..Len(ops') :
             ops'[k] = REFRESHED
                => \/ \A a \in 1..(k - 1) : ~IsListOp(ops'[a])
                   \/ \A b \in (k + 1)..Len(ops') : ~IsListOp(ops'[b])
       /\ (ResetStep /\ pc' = "body")
            => (~Called(REFRESHED, ops') /\ ~Called(REFRESH, io'))]_vars

\* tick 6 of a live cycle: scroll, live icon switched on, then the refresh
C18_Witness ==
    /\ pc = "top" /\ live /\ i = LIVE_ICON_LATENCY + 1
    /\ ops = <<SCROLL, POP(10), INSERT(10, live_on_icon), REFRESHED>>
    /\ io = <<REFRESH, SLEEP_TICK>>

\* the identities of the elements of scene g, in order
Ids(g) == [k \in 1..Len(g) |-> g[k].id]

\* scene g has the structure of the master scene
SceneShape(g) ==
    /\ Len(g) \in {11, 12}
    /\ SubSeq(Ids(g), 1, 10) = SubSeq(Ids(InitMasterGroup), 1, 10)
    /\ g[11] \in {live_on_icon, live_off_icon}
    /\ Len(g) = 12 => g[12] = alert_true_icon
    /\ \A j, k \in 1..Len(g) : g[j].id = g[k].id => j = k

(* C19: scene structure.  After every step the master scene has 11
   elements, or 12 with the alert icon last; its first ten are the two text
   labels, the two borders, the four badge circles and the two badge labels,
   in this order; the eleventh is the live-on or the live-off icon; none
   occurs twice.  A live reset cycle without alert leaves the alert slot
   absent and the identity and order of the other eleven unchanged; one with
   alert leaves the alert icon twelfth. *)
C19_SceneStructure ==
    [][/\ SceneShape(master_group')
       /\ (ResetStep /\ pc' = "body" /\ live')
            => /\ Len(master_group') = (IF train'.alert THEN 12 ELSE 11)
               /\ SubSeq(Ids(master_group'), 1, 11)
                     = SubSeq(Ids(master_group), 1, 11)]_vars

\* a live cycle without alert has updated a scene whose flashing had ended in
\* its off phase: eleven elements, no alert slot
C19_Witness ==
    /\ setup /\ live /\ pc = "body" /\ i = 0
    /\ ~train.alert /\ Len(master_group) = 11
    /\ master_group[11] = live_off_icon

(* C20: previous_hour.  It changes only in a reset cycle that obtained the
   clock, did not restart and sampled an hour inside the active window, and
   then to that hour; so it is always RESTART_HOUR (its initial value) or an
   hour inside the window, and a restart with memory above the threshold
   happens only under a schedule whose window holds RESTART_HOUR - 1. *)
C20_PreviousHour ==
    [][/\ previous_hour' = RESTART_HOUR
          \/ InWindow(on_hour, off_hour, previous_hour')
       /\ previous_hour' # previous_hour
            => /\ ResetStep /\ current_time' # None /\ pc' = "body"
               /\ InWindow(on_hour, off_hour, current_hour')
               /\ previous_hour' = current_hour'
       /\ (ResetStep /\ ~(current_time' # None /\ pc' = "body"))
            => previous_hour' = previous_hour
       /\ (pc' = "cleanup" /\ pc = "top" /\ free_mem' >= MEM_THRESHOLD)
            => InWindow(on_hour, off_hour, RESTART_HOUR_PREV)]_vars

\* an inactive cycle after an active one: previous_hour still holds the hour
\* of the active cycle
C20_Witness ==
    /\ pc = "idle" /\ free_mem >= MEM_THRESHOLD
    /\ previous_hour # RESTART_HOUR /\ previous_hour # current_hour
    /\ InWindow(on_hour, off_hour, previous_hour)
    /\ ~InWindow(on_hour, off_hour, current_hour)

====
